---- MODULE Spec2Model ----
(***************************************************************************)
(* tmux-shortcuts: the text utilities, the block builder, the column       *)
(* packer and the renderer of src/main.go as a state machine.              *)
(*                                                                         *)
(* A Go string is a sequence of one-character strings, so that len,        *)
(* strings.Fields, strings.TrimSpace and strings.Replace are computed on   *)
(* its characters.  A line held by a block or a column is the record       *)
(*   [blk |-> the block it was built for, idx |-> its place in the block,  *)
(*    blank |-> strings.TrimSpace(line) == ""]                             *)
(* computed from the line's text: blankness is the only property of a      *)
(* line's text the packer reads (main.go:200).                             *)
(***************************************************************************)
EXTENDS Integers, Sequences, FiniteSets

VARIABLES
    allShortcuts,       \* the dataset handed to displayShortcutsInColumns
    terminalWidth,      \* what getTerminalWidth returns
    pc,                 \* position in main / displayShortcutsInColumns
    allBlocks,          \* main.go:149
    totalLines,         \* main.go:150
    numDisplayColumns,  \* main.go:136
    columns,            \* main.go:179
    columnHeight,       \* main.go:180
    currentCol,         \* main.go:181 (0-based, as in the source)
    blockIndex,         \* the range index i of main.go:183 (0-based)
    printed,            \* the grid rows written by main.go:210-220
    wText,              \* wordWrap's argument text
    wLineWidth,         \* wordWrap's argument lineWidth
    wLines,             \* wordWrap's result
    wpc                 \* "call" before wordWrap is applied, "returned" after

vars == <<allShortcuts, terminalWidth, pc, allBlocks, totalLines,
          numDisplayColumns, columns, columnHeight, currentCol, blockIndex,
          printed, wText, wLineWidth, wLines, wpc>>

packVars == <<allShortcuts, terminalWidth, pc, allBlocks, totalLines,
              numDisplayColumns, columns, columnHeight, currentCol,
              blockIndex, printed>>

wrapVars == <<wText, wLineWidth, wLines, wpc>>

---------------------------------------------------------------------------
(* Bounds of the explored inputs.                                          *)

MaxShortcuts == 2      \* entries of a generated dataset
MaxCols == 7           \* generated terminal widths give 1..MaxCols columns
MaxTextLen == 8        \* characters of a text handed to wordWrap
MaxLineWidth == 3      \* lineWidth handed to wordWrap

---------------------------------------------------------------------------
(* Program constants.                                                      *)

columnWidth == 25
columnSpacing == 2
fullColumnWidth == columnWidth + columnSpacing
DefaultWidth == 80

---------------------------------------------------------------------------
(* Strings.                                                                *)

IsSpace(c) == c \in {" ", "\t", "\n"}

Spaces(n) == [k \in 1..n |-> " "]

RECURSIVE TrimLeft(_)
TrimLeft(s) ==
    IF s # <<>> /\ IsSpace(Head(s)) THEN TrimLeft(Tail(s)) ELSE s

RECURSIVE TrimRight(_)
TrimRight(s) ==
    IF s # <<>> /\ IsSpace(s[Len(s)])
    THEN TrimRight(SubSeq(s, 1, Len(s) - 1))
    ELSE s

TrimSpace(s) == TrimRight(TrimLeft(s))

(* strings.Fields: the maximal runs of non-space characters, in order.     *)
RECURSIVE FieldsFrom(_, _, _)
FieldsFrom(s, word, acc) ==
    LET closed == IF word = <<>> THEN acc ELSE Append(acc, word)
    IN  IF s = <<>> THEN closed
        ELSE IF IsSpace(Head(s)) THEN FieldsFrom(Tail(s), <<>>, closed)
        ELSE FieldsFrom(Tail(s), Append(word, Head(s)), acc)

Fields(s) == FieldsFrom(s, <<>>, <<>>)

(* strings.Replace(s, old, new, -1) for a non-empty old.                   *)
RECURSIVE Replace(_, _, _)
Replace(s, old, new) ==
    IF Len(s) < Len(old) THEN s
    ELSE IF SubSeq(s, 1, Len(old)) = old
         THEN new \o Replace(SubSeq(s, Len(old) + 1, Len(s)), old, new)
         ELSE <<Head(s)>> \o Replace(Tail(s), old, new)

center(s, width) ==
    IF Len(s) >= width THEN s
    ELSE LET padding == (width - Len(s)) \div 2
             rightPadding == width - Len(s) - padding
         IN  Spaces(padding) \o s \o Spaces(rightPadding)

(* fmt.Sprintf("%-*s", width, s): padded on the right, never truncated.    *)
formatCell(s, width) ==
    IF Len(s) >= width THEN s ELSE s \o Spaces(width - Len(s))

---------------------------------------------------------------------------
(* wordWrap.                                                               *)

(* Variant of WrapBreaks that forgets the separating space.                *)
WrapBreaksNoSeparator(currentLine, word, lineWidth) ==
    Len(currentLine) + Len(word) > lineWidth

(* main.go:109: the word does not fit on the current line.                 *)
WrapBreaks(currentLine, word, lineWidth) ==
    Len(currentLine) + Len(word) + 1 > lineWidth

(* The loop of main.go:108-118 from word k on.                             *)
RECURSIVE WrapLoop(_, _, _, _, _)
WrapLoop(words, k, lines, currentLine, lineWidth) ==
    IF k > Len(words) THEN Append(lines, currentLine)
    ELSE LET word == words[k]
             brk == WrapBreaks(currentLine, word, lineWidth)
             lines1 == IF brk THEN Append(lines, currentLine) ELSE lines
             cur1 == IF brk THEN <<>> ELSE currentLine
             cur2 == IF cur1 = <<>> THEN word ELSE cur1 \o <<" ">> \o word
         IN  WrapLoop(words, k + 1, lines1, cur2, lineWidth)

wordWrap(text, lineWidth) ==
    LET words == Fields(TrimSpace(text))
    IN  IF Len(words) = 0 THEN <<>>
        ELSE WrapLoop(words, 1, <<>>, <<>>, lineWidth)

---------------------------------------------------------------------------
(* The dataset.                                                            *)

Shortcut(key, description, category) ==
    [Key |-> key, Description |-> description, Category |-> category]

CatSessions == <<"S","e","s","s","i","o","n","s">>
CatWindows == <<"W","i","n","d","o","w","s">>
CatPaneSplitting ==
    <<"P","a","n","e"," ","S","p","l","i","t","t","i","n","g"," ","&"," ","N","a","v">>
CatPaneManagement == <<"P","a","n","e"," ","M","a","n","a","g","e","m","e","n","t">>
CatMisc == <<"M","i","s","c">>
CatCopyMode == <<"C","o","p","y"," ","M","o","d","e">>

orderedCategories ==
    <<CatSessions, CatWindows, CatPaneSplitting, CatPaneManagement, CatMisc,
      CatCopyMode>>

getStaticShortcuts ==
    <<
       \* main.go:22  {Prefix d | Detach from session | Sessions}
       Shortcut(<<"P","r","e","f","i","x"," ","d">>,
                <<"D","e","t","a","c","h"," ","f","r","o","m"," ","s","e","s","s","i","o","n">>,
                CatSessions),
       \* main.go:23  {Prefix s | List sessions | Sessions}
       Shortcut(<<"P","r","e","f","i","x"," ","s">>,
                <<"L","i","s","t"," ","s","e","s","s","i","o","n","s">>,
                CatSessions),
       \* main.go:24  {Prefix $ | Rename session | Sessions}
       Shortcut(<<"P","r","e","f","i","x"," ","$">>,
                <<"R","e","n","a","m","e"," ","s","e","s","s","i","o","n">>,
                CatSessions),
       \* main.go:27  {Prefix c | Create new window | Windows}
       Shortcut(<<"P","r","e","f","i","x"," ","c">>,
                <<"C","r","e","a","t","e"," ","n","e","w"," ","w","i","n","d","o","w">>,
                CatWindows),
       \* main.go:28  {Prefix , | Rename window | Windows}
       Shortcut(<<"P","r","e","f","i","x"," ",",">>,
                <<"R","e","n","a","m","e"," ","w","i","n","d","o","w">>,
                CatWindows),
       \* main.go:29  {Prefix w | List windows | Windows}
       Shortcut(<<"P","r","e","f","i","x"," ","w">>,
                <<"L","i","s","t"," ","w","i","n","d","o","w","s">>,
                CatWindows),
       \* main.go:30  {Prefix f | Find window | Windows}
       Shortcut(<<"P","r","e","f","i","x"," ","f">>,
                <<"F","i","n","d"," ","w","i","n","d","o","w">>,
                CatWindows),
       \* main.go:31  {Prefix & | Kill window | Windows}
       Shortcut(<<"P","r","e","f","i","x"," ","&">>,
                <<"K","i","l","l"," ","w","i","n","d","o","w">>,
                CatWindows),
       \* main.go:32  {Prefix . | Move window | Windows}
       Shortcut(<<"P","r","e","f","i","x"," ",".">>,
                <<"M","o","v","e"," ","w","i","n","d","o","w">>,
                CatWindows),
       \* main.go:33  {Prefix p | Previous window | Windows}
       Shortcut(<<"P","r","e","f","i","x"," ","p">>,
                <<"P","r","e","v","i","o","u","s"," ","w","i","n","d","o","w">>,
                CatWindows),
       \* main.go:34  {Prefix n | Next window | Windows}
       Shortcut(<<"P","r","e","f","i","x"," ","n">>,
                <<"N","e","x","t"," ","w","i","n","d","o","w">>,
                CatWindows),
       \* main.go:35  {Prefix 0-9 | Select window by number | Windows}
       Shortcut(<<"P","r","e","f","i","x"," ","0","-","9">>,
                <<"S","e","l","e","c","t"," ","w","i","n","d","o","w"," ","b","y"," ","n","u","m","b","e","r">>,
                CatWindows),
       \* main.go:36  {Prefix l | Last selected window | Windows}
       Shortcut(<<"P","r","e","f","i","x"," ","l">>,
                <<"L","a","s","t"," ","s","e","l","e","c","t","e","d"," ","w","i","n","d","o","w">>,
                CatWindows),
       \* main.go:39  {Prefix % | Split horizontally | Pane Splitting & Nav}
       Shortcut(<<"P","r","e","f","i","x"," ","%">>,
                <<"S","p","l","i","t"," ","h","o","r","i","z","o","n","t","a","l","l","y">>,
                CatPaneSplitting),
       \* main.go:40  {Prefix '' | Split vertically | Pane Splitting & Nav}
       Shortcut(<<"P","r","e","f","i","x"," ","\"">>,
                <<"S","p","l","i","t"," ","v","e","r","t","i","c","a","l","l","y">>,
                CatPaneSplitting),
       \* main.go:41  {Prefix o | Next pane | Pane Splitting & Nav}
       Shortcut(<<"P","r","e","f","i","x"," ","o">>,
                <<"N","e","x","t"," ","p","a","n","e">>,
                CatPaneSplitting),
       \* main.go:42  {Prefix ; | Last pane | Pane Splitting & Nav}
       Shortcut(<<"P","r","e","f","i","x"," ",";">>,
                <<"L","a","s","t"," ","p","a","n","e">>,
                CatPaneSplitting),
       \* main.go:43  {Prefix Arrow | Navigate panes | Pane Splitting & Nav}
       Shortcut(<<"P","r","e","f","i","x"," ","A","r","r","o","w">>,
                <<"N","a","v","i","g","a","t","e"," ","p","a","n","e","s">>,
                CatPaneSplitting),
       \* main.go:46  {Prefix x | Kill pane | Pane Management}
       Shortcut(<<"P","r","e","f","i","x"," ","x">>,
                <<"K","i","l","l"," ","p","a","n","e">>,
                CatPaneManagement),
       \* main.go:47  {Prefix { | Move pane left | Pane Management}
       Shortcut(<<"P","r","e","f","i","x"," ","{">>,
                <<"M","o","v","e"," ","p","a","n","e"," ","l","e","f","t">>,
                CatPaneManagement),
       \* main.go:48  {Prefix } | Move pane right | Pane Management}
       Shortcut(<<"P","r","e","f","i","x"," ","}">>,
                <<"M","o","v","e"," ","p","a","n","e"," ","r","i","g","h","t">>,
                CatPaneManagement),
       \* main.go:49  {Prefix Space | Next layout | Pane Management}
       Shortcut(<<"P","r","e","f","i","x"," ","S","p","a","c","e">>,
                <<"N","e","x","t"," ","l","a","y","o","u","t">>,
                CatPaneManagement),
       \* main.go:50  {Prefix z | Toggle zoom pane | Pane Management}
       Shortcut(<<"P","r","e","f","i","x"," ","z">>,
                <<"T","o","g","g","l","e"," ","z","o","o","m"," ","p","a","n","e">>,
                CatPaneManagement),
       \* main.go:51  {Prefix ! | Break pane to new window | Pane Management}
       Shortcut(<<"P","r","e","f","i","x"," ","!">>,
                <<"B","r","e","a","k"," ","p","a","n","e"," ","t","o"," ","n","e","w"," ","w","i","n","d","o","w">>,
                CatPaneManagement),
       \* main.go:52  {Prefix q | Show pane numbers | Pane Management}
       Shortcut(<<"P","r","e","f","i","x"," ","q">>,
                <<"S","h","o","w"," ","p","a","n","e"," ","n","u","m","b","e","r","s">>,
                CatPaneManagement),
       \* main.go:55  {Prefix [ | Enter copy mode | Copy Mode}
       Shortcut(<<"P","r","e","f","i","x"," ","[">>,
                <<"E","n","t","e","r"," ","c","o","p","y"," ","m","o","d","e">>,
                CatCopyMode),
       \* main.go:56  {v | Start selection (vi) | Copy Mode}
       Shortcut(<<"v">>,
                <<"S","t","a","r","t"," ","s","e","l","e","c","t","i","o","n"," ","(","v","i",")">>,
                CatCopyMode),
       \* main.go:57  {y | Copy selection (vi) | Copy Mode}
       Shortcut(<<"y">>,
                <<"C","o","p","y"," ","s","e","l","e","c","t","i","o","n"," ","(","v","i",")">>,
                CatCopyMode),
       \* main.go:58  {Prefix ] | Paste buffer | Copy Mode}
       Shortcut(<<"P","r","e","f","i","x"," ","]">>,
                <<"P","a","s","t","e"," ","b","u","f","f","e","r">>,
                CatCopyMode),
       \* main.go:61  {Prefix t | Show clock | Misc}
       Shortcut(<<"P","r","e","f","i","x"," ","t">>,
                <<"S","h","o","w"," ","c","l","o","c","k">>,
                CatMisc),
       \* main.go:62  {Prefix : | Enter command prompt | Misc}
       Shortcut(<<"P","r","e","f","i","x"," ",":">>,
                <<"E","n","t","e","r"," ","c","o","m","m","a","n","d"," ","p","r","o","m","p","t">>,
                CatMisc),
       \* main.go:63  {Prefix ? | List all shortcuts | Misc}
       Shortcut(<<"P","r","e","f","i","x"," ","?">>,
                <<"L","i","s","t"," ","a","l","l"," ","s","h","o","r","t","c","u","t","s">>,
                CatMisc)
    >>

(* main.go:226-228: every "Prefix" of a key becomes "ctrl+b".              *)
ReplacePrefix(shortcuts) ==
    [k \in DOMAIN shortcuts |->
        [shortcuts[k] EXCEPT
            !.Key = Replace(@, <<"P","r","e","f","i","x">>,
                               <<"c","t","r","l","+","b">>)]]

(* Generated datasets: a key that is blank or not, a description that      *)
(* wraps to 0, 1 or 4 lines at columnWidth-2, a category that is the first *)
(* or the last displayed; and one entry of a category that is not          *)
(* displayed at all.                                                       *)
Word(n) == [k \in 1..n |-> "a"]

SmallKeys == {<<"x">>, <<>>}

SmallDescriptions ==
    { <<>>,
      Word(9),
      Word(12) \o <<" ">> \o Word(12) \o <<" ">> \o Word(12) \o <<" ">>
          \o Word(12) }

CatOther == <<"O","t","h","e","r">>

SmallCategories == {CatSessions, CatCopyMode}

SmallShortcuts ==
    { Shortcut(k, d, c) :
        k \in SmallKeys, d \in SmallDescriptions, c \in SmallCategories }
    \cup { Shortcut(<<"x">>, Word(9), CatOther) }

SeqsUpTo(S, n) == UNION { [1..k -> S] : k \in 0..n }

Datasets == {getStaticShortcuts} \cup SeqsUpTo(SmallShortcuts, MaxShortcuts)

(* Terminal widths: 0 (the numDisplayColumns == 0 branch), the default 80 *)
(* (two columns), and the widths of exactly 3..MaxCols columns.            *)
Widths == {0, DefaultWidth} \cup { fullColumnWidth * n : n \in 3..MaxCols }

---------------------------------------------------------------------------
(* Block builder.                                                          *)

(* main.go:125-128 read at main.go:162: the entries of one category, in    *)
(* dataset order.                                                          *)
categorized(shortcuts, catName) ==
    SelectSeq(shortcuts, LAMBDA s : s.Category = catName)

Rule(n) == [k \in 1..n |-> "-"]

(* main.go:153-157: the text lines of the header of category i (0-based).  *)
headerBlock(i, catName) ==
    (IF i > 0 THEN << <<>> >> ELSE <<>>)
        \o << center(catName, columnWidth), Rule(columnWidth), <<>> >>

(* main.go:163-169: the text lines of one entry.                           *)
shortcutBlock(shortcut) ==
    LET descLines == wordWrap(shortcut.Description, columnWidth - 2)
    IN  << formatCell(<<" ">> \o shortcut.Key, columnWidth) >>
        \o [k \in 1..Len(descLines) |->
                formatCell(<<" ", " ">> \o descLines[k], columnWidth)]
        \o << <<>> >>

(* main.go:151-173 from category i on: blocks whose lines are texts.       *)
RECURSIVE BlocksFrom(_, _)
BlocksFrom(shortcuts, i) ==
    IF i >= Len(orderedCategories) THEN <<>>
    ELSE LET catName == orderedCategories[i + 1]
             entries == categorized(shortcuts, catName)
         IN  << [lines |-> headerBlock(i, catName), isHeader |-> TRUE,
                 categoryId |-> i] >>
             \o [k \in 1..Len(entries) |->
                    [lines |-> shortcutBlock(entries[k]), isHeader |-> FALSE,
                     categoryId |-> i]]
             \o BlocksFrom(shortcuts, i + 1)

(* The line record of text line k of block b.                              *)
Line(b, k, text) == [blk |-> b, idx |-> k, blank |-> TrimSpace(text) = <<>>]

BuildBlocks(shortcuts) ==
    LET raw == BlocksFrom(shortcuts, 0)
    IN  [b \in 1..Len(raw) |->
            [lines |-> [k \in 1..Len(raw[b].lines) |->
                            Line(b, k, raw[b].lines[k])],
             isHeader |-> raw[b].isHeader,
             categoryId |-> raw[b].categoryId]]

RECURSIVE SumLines(_, _)
SumLines(blocks, b) ==
    IF b > Len(blocks) THEN 0
    ELSE Len(blocks[b].lines) + SumLines(blocks, b + 1)

(* main.go:136-139                                                         *)
NumDisplayColumns(width) ==
    IF width \div fullColumnWidth = 0 THEN 1 ELSE width \div fullColumnWidth

---------------------------------------------------------------------------
(* Column packer.                                                          *)

(* main.go:180                                                             *)
ColumnHeight(total, n) == (total + n - 1) \div n

(* Variant of minSpaceNeeded without the reservation for the first entry.  *)
MinSpaceNoReserve(blocks, i) == Len(blocks[i + 1].lines)

(* main.go:187-191, for the block of 0-based index i.                      *)
minSpaceNeeded(blocks, i) ==
    LET blk == blocks[i + 1]
    IN  IF blk.isHeader /\ i + 1 < Len(blocks)
           /\ blocks[i + 2].categoryId = blk.categoryId
        THEN Len(blk.lines) + Len(blocks[i + 2].lines)
        ELSE Len(blk.lines)

(* Variants of WontFit: >= for >, and one line of slack.                   *)
WontFitOffByOne(column, need, height) ==
    Len(column) > 0 /\ Len(column) + need >= height

WontFitLoose(column, need, height) ==
    Len(column) > 0 /\ Len(column) + need > height + 1

(* main.go:194                                                             *)
WontFit(column, need, height) ==
    Len(column) > 0 /\ Len(column) + need > height

(* Variant of ColumnsExhausted that gives up one column early.             *)
ColumnsExhaustedEarly(col, n) == col >= n - 1

(* main.go:196                                                             *)
ColumnsExhausted(col, n) == col >= n

(* Variants of SkipLeadingEmpty: drop the first line whatever it is, and   *)
(* drop nothing.                                                           *)
SkipLeadingAlways(blockLines) ==
    IF Len(blockLines) > 0 THEN Tail(blockLines) ELSE blockLines

SkipLeadingNever(blockLines) == blockLines

(* main.go:200-202                                                         *)
SkipLeadingEmpty(blockLines) ==
    IF Len(blockLines) > 0 /\ blockLines[1].blank
    THEN Tail(blockLines)
    ELSE blockLines

(* main.go:212-215: the cell of a row a column does not reach holds "".    *)
EmptyLine == [blk |-> 0, idx |-> 0, blank |-> TRUE]

---------------------------------------------------------------------------
(* The program: main, then displayShortcutsInColumns.                      *)

Init ==
    /\ allShortcuts \in Datasets
    /\ terminalWidth \in Widths
    /\ pc = "main"
    /\ allBlocks = <<>>
    /\ totalLines = 0
    /\ numDisplayColumns = 0
    /\ columns = <<>>
    /\ columnHeight = 0
    /\ currentCol = 0
    /\ blockIndex = 0
    /\ printed = <<>>
    /\ wText = <<>>
    /\ wLineWidth = 1
    /\ wLines = <<>>
    /\ wpc = "idle"

(* main.go:223-230 up to the call of displayShortcutsInColumns.            *)
Main ==
    /\ pc = "main"
    /\ allShortcuts' = ReplacePrefix(allShortcuts)
    /\ pc' = "build"
    /\ UNCHANGED <<terminalWidth, allBlocks, totalLines, numDisplayColumns,
                   columns, columnHeight, currentCol, blockIndex, printed>>
    /\ UNCHANGED wrapVars

(* main.go:125-181: group, size the grid, build the blocks, return when    *)
(* there is no line, else allocate the columns.                            *)
Build ==
    /\ pc = "build"
    /\ LET blocks == BuildBlocks(allShortcuts)
           total == SumLines(blocks, 1)
           n == NumDisplayColumns(terminalWidth)
       IN  /\ allBlocks' = blocks
           /\ totalLines' = total
           /\ numDisplayColumns' = n
           /\ IF total = 0
              THEN /\ pc' = "done"
                   /\ UNCHANGED <<columns, columnHeight>>
              ELSE /\ pc' = "pack"
                   /\ columns' = [c \in 1..n |-> <<>>]
                   /\ columnHeight' = ColumnHeight(total, n)
    /\ currentCol' = 0
    /\ blockIndex' = 0
    /\ UNCHANGED <<allShortcuts, terminalWidth, printed>>
    /\ UNCHANGED wrapVars

(* main.go:183-207: one iteration of the packing loop; the loop ends by    *)
(* the break of main.go:197 or after the last block.                       *)
PackStep ==
    /\ pc = "pack"
    /\ blockIndex < Len(allBlocks)
    /\ LET blk == allBlocks[blockIndex + 1]
           need == minSpaceNeeded(allBlocks, blockIndex)
           last == blockIndex + 1 = Len(allBlocks)
       IN  IF WontFit(columns[currentCol + 1], need, columnHeight)
           THEN /\ currentCol' = currentCol + 1
                /\ IF ColumnsExhausted(currentCol + 1, numDisplayColumns)
                   THEN /\ pc' = "print"
                        /\ UNCHANGED <<columns, blockIndex>>
                   ELSE /\ columns' =
                              [columns EXCEPT ![currentCol + 2] =
                                  @ \o SkipLeadingEmpty(blk.lines)]
                        /\ blockIndex' = blockIndex + 1
                        /\ pc' = IF last THEN "print" ELSE "pack"
           ELSE /\ columns' =
                      [columns EXCEPT ![currentCol + 1] = @ \o blk.lines]
                /\ blockIndex' = blockIndex + 1
                /\ pc' = IF last THEN "print" ELSE "pack"
                /\ UNCHANGED currentCol
    /\ UNCHANGED <<allShortcuts, terminalWidth, allBlocks, totalLines,
                   numDisplayColumns, columnHeight, printed>>
    /\ UNCHANGED wrapVars

(* main.go:210-220: the grid, row by row and column by column.             *)
PrintColumns ==
    /\ pc = "print"
    /\ printed' =
          [row \in 1..columnHeight |->
              [col \in 1..numDisplayColumns |->
                  IF row <= Len(columns[col])
                  THEN columns[col][row]
                  ELSE EmptyLine]]
    /\ pc' = "done"
    /\ UNCHANGED <<allShortcuts, terminalWidth, allBlocks, totalLines,
                   numDisplayColumns, columns, columnHeight, currentCol,
                   blockIndex>>
    /\ UNCHANGED wrapVars

Next == Main \/ Build \/ PackStep \/ PrintColumns

Spec == Init /\ [][Next]_vars

---------------------------------------------------------------------------
(* wordWrap on its own: every text of at most MaxTextLen characters over   *)
(* two letters and the space, every lineWidth in 1..MaxLineWidth.          *)

WrapChars == {"a", "b", " "}

Texts == SeqsUpTo(WrapChars, MaxTextLen)

WrapInit ==
    /\ wText \in Texts
    /\ wLineWidth \in 1..MaxLineWidth
    /\ wLines = <<>>
    /\ wpc = "call"
    /\ allShortcuts = <<>>
    /\ terminalWidth = DefaultWidth
    /\ pc = "idle"
    /\ allBlocks = <<>>
    /\ totalLines = 0
    /\ numDisplayColumns = 0
    /\ columns = <<>>
    /\ columnHeight = 0
    /\ currentCol = 0
    /\ blockIndex = 0
    /\ printed = <<>>

WrapCall ==
    /\ wpc = "call"
    /\ wLines' = wordWrap(wText, wLineWidth)
    /\ wpc' = "returned"
    /\ UNCHANGED <<wText, wLineWidth>>
    /\ UNCHANGED packVars

WrapNext == WrapCall

SpecWrap == WrapInit /\ [][WrapNext]_vars

---------------------------------------------------------------------------
(* What the claims speak of.                                               *)

Packing == pc \in {"pack", "print", "done"}

Packed == pc \in {"print", "done"}

BlockIds == 1..Len(allBlocks)

(* The rows of column c that hold a line of block b.                       *)
RowsOf(b, c) == { r \in 1..Len(columns[c]) : columns[c][r].blk = b }

ColumnsOf(b) == { c \in 1..Len(columns) : RowsOf(b, c) # {} }

Dropped(b) == ColumnsOf(b) = {}

BlocksIn(c) == { columns[c][r].blk : r \in 1..Len(columns[c]) }

(* Block b lies in column c from row start on, as the lines given.         *)
LiesAt(b, c, start, lines) ==
    /\ RowsOf(b, c) = start..(start + Len(lines) - 1)
    /\ SubSeq(columns[c], start, start + Len(lines) - 1) = lines

(* Block b opened column c with its leading blank line removed.            *)
OpenedStripped(b, c) ==
    /\ c > 1
    /\ allBlocks[b].lines[1].blank
    /\ LiesAt(b, c, 1, Tail(allBlocks[b].lines))

PlacedWhole(b) ==
    \E c \in 1..Len(columns) :
        /\ ColumnsOf(b) = {c}
        /\ \/ \E start \in 1..Len(columns[c]) :
                 LiesAt(b, c, start, allBlocks[b].lines)
           \/ OpenedStripped(b, c)

RECURSIVE Flatten(_, _)
Flatten(seqs, k) ==
    IF k > Len(seqs) THEN <<>> ELSE seqs[k] \o Flatten(seqs, k + 1)

AllBlockLines == Flatten([b \in BlockIds |-> allBlocks[b].lines], 1)

FirstEntryOf(b) ==
    /\ allBlocks[b].isHeader
    /\ b + 1 <= Len(allBlocks)
    /\ allBlocks[b + 1].categoryId = allBlocks[b].categoryId

KeysNotBlank ==
    \A k \in DOMAIN allShortcuts : TrimSpace(allShortcuts[k].Key) # <<>>

MainShortcuts == ReplacePrefix(getStaticShortcuts)

WordsOf(lines) == Flatten([k \in DOMAIN lines |-> Fields(lines[k])], 1)

---------------------------------------------------------------------------
(* C1: the packer never splits a block: at every point of the packing and  *)
(* after it, each block is either in no column, or its lines (or, when it  *)
(* opened a new column and began with a blank line, its lines but that     *)
(* first one) lie contiguously and in order in exactly one column.         *)
C1_NeverSplitsBlock ==
    Packing => \A b \in BlockIds : Dropped(b) \/ PlacedWhole(b)

C1_Witness ==
    /\ pc = "done"
    /\ numDisplayColumns >= 2
    /\ \E b \in BlockIds : Dropped(b)
    /\ \E b \in BlockIds : \E c \in 1..Len(columns) : OpenedStripped(b, c)
    /\ \E b \in BlockIds : \E c \in 1..Len(columns) :
          /\ ~allBlocks[b].isHeader
          /\ LiesAt(b, c, 1, allBlocks[b].lines)
          /\ c > 1

(* C2: a header that is placed and is followed by an entry of its own      *)
(* category has that entry in its own column.                              *)
C2_HeaderNeverOrphaned ==
    Packed =>
        \A b \in BlockIds :
            (FirstEntryOf(b) /\ ~Dropped(b)) => ColumnsOf(b + 1) = ColumnsOf(b)

(* C3: with one column the packer never advances and never drops: the      *)
(* column is the concatenation of all blocks' lines, in order, and its     *)
(* length is totalLines, which is columnHeight.                            *)
C3_SingleColumnHoldsAll ==
    (Packing /\ numDisplayColumns = 1) =>
        /\ currentCol = 0
        /\ Packed =>
              /\ columns[1] = AllBlockLines
              /\ Len(columns[1]) = totalLines
              /\ columnHeight = totalLines

C3_Witness ==
    /\ pc = "done"
    /\ numDisplayColumns = 1
    /\ terminalWidth = 0
    /\ Len(allBlocks) > Len(orderedCategories)
    /\ Len(printed) = totalLines

(* C4: every line wordWrap returns is at most lineWidth long, unless it is *)
(* one single word that is itself longer than lineWidth.                   *)
C4_WrapLineLength ==
    wpc = "returned" =>
        \A k \in 1..Len(wLines) :
            \/ Len(wLines[k]) <= wLineWidth
            \/ /\ Len(Fields(wLines[k])) = 1
               /\ Len(Fields(wLines[k])[1]) > wLineWidth

C4_Witness ==
    /\ wpc = "returned"
    /\ Len(wLines) >= 2
    /\ \E k \in 1..Len(wLines) : Len(wLines[k]) > wLineWidth
    /\ \E k \in 1..Len(wLines) :
          Len(Fields(wLines[k])) >= 2 /\ Len(wLines[k]) = wLineWidth

(* C5: wordWrap returns no line for a text without words; otherwise no     *)
(* returned line is empty of words, the words of the lines are the words   *)
(* of the text in order, and a word longer than lineWidth has a line to    *)
(* itself.                                                                 *)
C5_WrapKeepsWords ==
    wpc = "returned" =>
        IF Fields(wText) = <<>>
        THEN wLines = <<>>
        ELSE /\ \A k \in 1..Len(wLines) : Fields(wLines[k]) # <<>>
             /\ WordsOf(wLines) = Fields(wText)
             /\ \A k \in 1..Len(wLines) :
                   (\E j \in 1..Len(Fields(wLines[k])) :
                        Len(Fields(wLines[k])[j]) > wLineWidth)
                   => Len(Fields(wLines[k])) = 1

(* C6: with no shortcut entry the block sequence is empty, totalLines is   *)
(* 0 and no grid row is printed.                                           *)
C6_EmptyDatasetNoOutput ==
    (pc = "done" /\ allShortcuts = <<>>) =>
        /\ allBlocks = <<>>
        /\ totalLines = 0
        /\ printed = <<>>

(* C7: for the built-in dataset at the default width 80 (120 lines, two    *)
(* columns of height 60) no block is dropped and every line of every       *)
(* shortcut entry is printed.                                              *)
C7_BuiltInAllPrinted ==
    (pc = "done" /\ allShortcuts = MainShortcuts
        /\ terminalWidth = DefaultWidth) =>
        /\ totalLines = 120
        /\ numDisplayColumns = 2
        /\ columnHeight = 60
        /\ \A b \in BlockIds :
              /\ ~Dropped(b)
              /\ ~allBlocks[b].isHeader =>
                    \A k \in 1..Len(allBlocks[b].lines) :
                        \E row \in 1..Len(printed) :
                            \E col \in 1..numDisplayColumns :
                                printed[row][col] = allBlocks[b].lines[k]

(* C8: at every step of the packing loop the placed blocks are a prefix of *)
(* the block sequence, the columns read in order hold their lines in the   *)
(* original order, the column index never decreases, and blocks are left   *)
(* out only as a suffix and only once the column index has reached the     *)
(* number of columns.                                                      *)
PlacedPrefixInOrder ==
    Packing =>
        /\ \A b \in BlockIds : ~Dropped(b) <=> b <= blockIndex
        /\ LET flat == Flatten(columns, 1)
           IN  \A j \in 1..(Len(flat) - 1) :
                  \/ flat[j].blk < flat[j + 1].blk
                  \/ /\ flat[j].blk = flat[j + 1].blk
                     /\ flat[j].idx < flat[j + 1].idx
        /\ \A c \in 1..Len(columns) : c > currentCol + 1 => columns[c] = <<>>
        /\ currentCol <= numDisplayColumns
        /\ (pc = "pack" \/ blockIndex = Len(allBlocks))
              => currentCol < numDisplayColumns
        /\ (Packed /\ blockIndex < Len(allBlocks))
              => currentCol = numDisplayColumns

C8_PackInOrder ==
    []PlacedPrefixInOrder /\ [][currentCol' >= currentCol]_vars

C8_Witness ==
    /\ pc = "done"
    /\ currentCol = numDisplayColumns
    /\ numDisplayColumns >= 3
    /\ blockIndex < Len(allBlocks)
    /\ \A c \in 1..Len(columns) : columns[c] # <<>>

(* C9: after packing every column has at most columnHeight =               *)
(* ceil(totalLines / N) lines, unless it consists of one single block that *)
(* is itself longer than columnHeight; so every line of a column of two or *)
(* more blocks is printed at its own row.                                  *)
C9_ColumnsWithinHeight ==
    Packed =>
        /\ columnHeight * numDisplayColumns >= totalLines
        /\ (columnHeight - 1) * numDisplayColumns < totalLines
        /\ \A c \in 1..Len(columns) :
              \/ Len(columns[c]) <= columnHeight
              \/ \E b \in BlockIds :
                    /\ BlocksIn(c) = {b}
                    /\ Len(allBlocks[b].lines) > columnHeight
        /\ pc = "done" =>
              \A c \in 1..Len(columns) :
                  Cardinality(BlocksIn(c)) >= 2 =>
                      \A r \in 1..Len(columns[c]) :
                          /\ r <= columnHeight
                          /\ printed[r][c] = columns[c][r]

C9_Witness ==
    /\ pc = "done"
    /\ \E c \in 1..Len(columns) : Len(columns[c]) > columnHeight
    /\ \E c \in 1..Len(columns) :
          Cardinality(BlocksIn(c)) >= 2 /\ Len(columns[c]) = columnHeight

(* C10: when no key of the dataset is blank, no column starts with a blank *)
(* line.                                                                   *)
C10_NoLeadingBlank ==
    (Packing /\ KeysNotBlank) =>
        \A c \in 1..Len(columns) :
            columns[c] # <<>> => ~columns[c][1].blank

C10_Witness ==
    /\ pc = "done"
    /\ KeysNotBlank
    /\ allShortcuts # <<>>
    /\ \E b \in BlockIds : \E c \in 1..Len(columns) : OpenedStripped(b, c)
    /\ \A c \in 1..Len(columns) : columns[c] # <<>>

====
